---- MODULE Spec2Model ----
(***************************************************************************)
(* RegisterImageToTubesUsingRigidTransformTuner.py: the registration tuner *)
(* logic (RegistrationTunerLogic), the external executables it spawns, the *)
(* temporary files it owns, and the listeners wired to its signals         *)
(* (IterationWidget, RegistrationTunerMainWindow.add_tubes and             *)
(* plot_metric_values).  Signals are Qt direct connections: emit() runs    *)
(* every connected slot synchronously, in connection order, and an         *)
(* exception raised inside a slot is reported and dropped at the slot      *)
(* boundary.  Paths are pairs <<name, k>>.                                 *)
(***************************************************************************)
EXTENDS Integers, Sequences, FiniteSets, TLC

\* ---- bounds of the model ------------------------------------------------
MaxRuns == 3
MaxTraceLen == 3
MaxCloses == 2
MaxDepth == 6

\* ---- inputs ---------------------------------------------------------------
SamplingFactors == {2, 3}
Seeds == {1, 2}
ExecutableNames == {"Analysis", "SubSampleTubes"}
Outcomes == {"ok", "nonzero", "notfound"}

\* ---- paths ----------------------------------------------------------------
input_volume == <<"input_volume.mha", 0>>
input_tubes == <<"input_vessel.tre", 0>>
output_transform == <<"output_transform.h5", 0>>
SubsampledTubesTemp == <<"SubsampledTubes.tre", 0>>
VideoFrameDir == <<"video_frame_dir", 0>>
TunerConfigTemp(k) == <<"TunerConfig.json", k>>

\* io_params = config['ParameterGroups'][0]['Parameters']; entry 3 is the
\* progression file, whose contents are the variable progression_file.
io_params == <<input_volume, input_tubes, output_transform>>

\* str() of the small non-negative integers used as sampling factors
str(n) == <<"0", "1", "2", "3", "4", "5", "6", "7", "8", "9">>[n + 1]

memory == 4

NoProgression == [loaded |-> FALSE, rows |-> <<>>]
NoFile == [exists |-> FALSE, rows |-> <<>>, FixedParameters |-> <<0, 0, 0>>]
ZeroParameters == <<0, 0, 0, 0, 0, 0>>
NoMarker == [plotted |-> FALSE, x |-> 0, row |-> 0]

\* One row of OptimizationParameterProgression as the analysis executable
\* writes it: row k holds iteration k, row 0 the initial (zero) parameters.
MakeRow(k, seed) ==
  [Iteration |-> k,
   Parameters |-> <<seed * k, k, 2 * k, k, seed * k, 3 * k>>,
   CostFunctionValue |-> k + 1]

\* The progression files the analysis executable can leave behind.
ProgressionContents ==
  { [exists |-> TRUE,
     rows |-> [k \in 1..n |-> MakeRow(k - 1, seed)],
     FixedParameters |-> <<seed, 2 * seed, 0>>] :
       n \in 0..MaxTraceLen, seed \in Seeds }

VARIABLES
  config,              \* the configuration document (immutable)
  pc,                  \* "new", "running", "init_failed", "closed"
  files,               \* temporary paths that exist on the filesystem
  progression_file,    \* contents of the file named by io_params[3]
  calls,               \* spawned external processes, in order
  ntemp,               \* run_analysis calls so far (names the temp config)
  ncloses,             \* close calls so far
  iteration,           \* RegistrationTunerLogic._iteration
  number_of_iterations,\* RegistrationTunerLogic._number_of_iterations
  progression,         \* RegistrationTunerLogic._progression
  tubes_center,        \* RegistrationTunerLogic._tubes_center
  subsampled_tubes,    \* RegistrationTunerLogic._subsampled_tubes
  slider_value, slider_max, spin_value, spin_max,   \* IterationWidget
  tubes_circles,       \* RegistrationTunerMainWindow.tubes_circles
  metric_marker,       \* the point plot_metric_values last highlighted
  op,                  \* the last operation and what happened in it:
  arg,                 \*   its argument (set_iteration's value, else 0)
  outcome,             \*   how its external process ended
  raised,              \*   the exception it raised ("none" if it returned)
  emitted,             \*   the signals it emitted, in order
  queries,             \*   the parameter lookups add_tubes made
  slot_errors,         \*   exceptions dropped at slot boundaries
  delete_attempts,     \*   the deletions it attempted
  overflow             \* the signal cascade exceeded MaxDepth

vars == <<config, pc, files, progression_file, calls, ntemp, ncloses,
          iteration, number_of_iterations, progression, tubes_center,
          subsampled_tubes, slider_value, slider_max, spin_value, spin_max,
          tubes_circles, metric_marker, op, arg, outcome, raised, emitted,
          queries, slot_errors, delete_attempts, overflow>>

\* The part of the state the signal cascade reads and writes.
Pack ==
  [iteration |-> iteration, number_of_iterations |-> number_of_iterations,
   progression |-> progression, tubes_center |-> tubes_center,
   subsampled_tubes |-> subsampled_tubes,
   slider_value |-> slider_value, slider_max |-> slider_max,
   spin_value |-> spin_value, spin_max |-> spin_max,
   tubes_circles |-> tubes_circles, metric_marker |-> metric_marker,
   exc |-> "none", emitted |-> <<>>, queries |-> <<>>,
   slot_errors |-> <<>>, overflow |-> overflow]

Unpack(s) ==
  /\ iteration' = s.iteration
  /\ number_of_iterations' = s.number_of_iterations
  /\ progression' = s.progression
  /\ tubes_center' = s.tubes_center
  /\ subsampled_tubes' = s.subsampled_tubes
  /\ slider_value' = s.slider_value
  /\ slider_max' = s.slider_max
  /\ spin_value' = s.spin_value
  /\ spin_max' = s.spin_max
  /\ tubes_circles' = s.tubes_circles
  /\ metric_marker' = s.metric_marker
  /\ raised' = s.exc
  /\ emitted' = s.emitted
  /\ queries' = s.queries
  /\ slot_errors' = s.slot_errors
  /\ overflow' = s.overflow

\* An exception leaving a slot is printed and dropped; emit() goes on.
Slot(s) ==
  IF s.exc # "none"
  THEN [s EXCEPT !.slot_errors = Append(@, s.exc), !.exc = "none"]
  ELSE s

\* emit(): the log keeps the signal, its argument and the iteration and
\* number_of_iterations the listeners find when they are invoked.
Emit(s, name, value) ==
  [s EXCEPT !.emitted =
              Append(@, <<name, value, s.iteration, s.number_of_iterations>>)]

Bound(v, lo, hi) == IF v < lo THEN lo ELSE IF v > hi THEN hi ELSE v

\* ---- RegistrationTunerMainWindow.add_tubes ------------------------------
target_iterations(s) == [k \in 1..memory |-> s.iteration - (k - 1)]

\* Lines 507-510: the parameters of iteration it, the all-zero default while
\* no progression is loaded; found is FALSE when progression[it] raises.
parameters_no_fallback(s, it) ==
  [from_trace |-> TRUE,
   found |-> it < Len(s.progression.rows),
   parameters |-> IF it < Len(s.progression.rows)
                  THEN s.progression.rows[it + 1].Parameters
                  ELSE ZeroParameters]

parameters_at(s, it) ==
  IF s.progression.loaded
  THEN [from_trace |-> TRUE,
        found |-> it < Len(s.progression.rows),
        parameters |-> IF it < Len(s.progression.rows)
                       THEN s.progression.rows[it + 1].Parameters
                       ELSE ZeroParameters]
  ELSE [from_trace |-> FALSE, found |-> TRUE, parameters |-> ZeroParameters]

\* r2d = 180. / np.pi: an angle of a radians is passed on as 180 * a / pi
\* degrees, kept here as the numerator over the denominator pi.
r2d(a) == [num |-> 180 * a, den |-> "pi"]
NoAngle == [num |-> 0, den |-> "1"]

Translate(dx, dy, dz) ==
  [kind |-> "translate", v |-> <<dx, dy, dz>>, angle |-> NoAngle,
   local |-> FALSE]
Rotate(angle, x, y, z, local) ==
  [kind |-> "rotate", v |-> <<x, y, z>>, angle |-> angle, local |-> local]

\* the same calls with the Z rotation made before the X rotation
mesh_transform_zyx(parameters, center) ==
  << Translate(0 - center[1], 0 - center[2], 0 - center[3]),
     Rotate(r2d(parameters[3]), 0, 0, 1, FALSE),
     Rotate(r2d(parameters[2]), 0, 1, 0, FALSE),
     Rotate(r2d(parameters[1]), 1, 0, 0, FALSE),
     Translate(center[1] + parameters[4], center[2] + parameters[5],
               center[3] + parameters[6]) >>

\* Lines 530-542: the calls made on circles_mesh, in order.
mesh_transform(parameters, center) ==
  << Translate(0 - center[1], 0 - center[2], 0 - center[3]),
     Rotate(r2d(parameters[1]), 1, 0, 0, FALSE),
     Rotate(r2d(parameters[2]), 0, 1, 0, FALSE),
     Rotate(r2d(parameters[3]), 0, 0, 1, FALSE),
     Translate(center[1] + parameters[4], center[2] + parameters[5],
               center[3] + parameters[6]) >>

RECURSIVE add_tubes_loop(_, _)
add_tubes_loop(s, its) ==
  IF its = <<>> THEN s
  ELSE
    LET it == Head(its) IN
    IF it >= 0 /\ it <= s.number_of_iterations
    THEN
      LET q == parameters_at(s, it)
          query == [iteration |-> it, from_trace |-> q.from_trace,
                    found |-> q.found, parameters |-> q.parameters]
      IN
      IF ~q.found
      THEN [s EXCEPT !.exc = IF s.progression.loaded THEN "IndexError"
                               ELSE "TypeError",
                     !.queries = Append(@, query)]
      ELSE
        LET mesh == [parameters |-> q.parameters,
                     center |-> s.tubes_center,
                     transformed |-> s.progression.loaded,
                     steps |-> IF s.progression.loaded
                               THEN mesh_transform(q.parameters, s.tubes_center)
                               ELSE <<>>,
                     center_mesh |-> <<s.tubes_center[1] + q.parameters[4],
                                       s.tubes_center[2] + q.parameters[5],
                                       s.tubes_center[3] + q.parameters[6]>>,
                     tubes |-> s.subsampled_tubes]
        IN add_tubes_loop(
             [s EXCEPT !.tubes_circles =
                          [i \in (DOMAIN @) \cup {it} |->
                             IF i = it THEN mesh ELSE @[i]],
                       !.queries = Append(@, query)],
             Tail(its))
    ELSE add_tubes_loop(s, Tail(its))

add_tubes(s) ==
  LET targets == target_iterations(s)
      s1 == add_tubes_loop(s, targets)
      keep == {targets[k] : k \in 1..Len(targets)}
  IN IF s1.exc # "none" THEN s1
     ELSE [s1 EXCEPT !.tubes_circles =
                        [i \in (DOMAIN @) \cap keep |-> @[i]]]

\* ---- RegistrationTunerMainWindow.plot_metric_values ---------------------
plot_metric_values(s) ==
  LET n == Len(s.progression.rows) IN
  IF ~s.progression.loaded THEN [s EXCEPT !.exc = "TypeError"]
  ELSE IF n = 0 THEN [s EXCEPT !.exc = "ValueError"]
  ELSE IF s.iteration >= n \/ s.iteration < 0 - n
       THEN [s EXCEPT !.exc = "IndexError"]
  ELSE [s EXCEPT !.metric_marker =
                    [plotted |-> TRUE,
                     x |-> s.iteration,
                     row |-> IF s.iteration >= 0 THEN s.iteration
                             ELSE n + s.iteration]]

\* ---- the iteration_changed cycle ----------------------------------------
RECURSIVE Logic_set_iteration(_, _, _)
RECURSIVE IterationWidget_set_iteration(_, _, _)
RECURSIVE slider_setValue(_, _, _)
RECURSIVE spinbox_setValue(_, _, _)

\* RegistrationTunerLogic.set_iteration; d is the nesting depth of the call
Logic_set_iteration(s, value, d) ==
  IF d > MaxDepth THEN [s EXCEPT !.overflow = TRUE]
  ELSE IF value > s.number_of_iterations THEN [s EXCEPT !.exc = "ValueError"]
  ELSE IF value # s.iteration
  THEN LET s0 == Emit([s EXCEPT !.iteration = value], "iterationChanged", value)
           s1 == Slot(add_tubes(s0))
           s2 == Slot(plot_metric_values(s1))
           s3 == Slot(IterationWidget_set_iteration(s2, value, d))
       IN s3
  ELSE s

\* set_iteration of a widget that moves the slider and forgets the spinbox
IterationWidget_set_iteration_slider_only(s, value, d) ==
  IF value # s.slider_value THEN slider_setValue(s, value, d) ELSE s

IterationWidget_set_iteration(s, value, d) ==
  LET s1 == IF value # s.slider_value THEN slider_setValue(s, value, d) ELSE s
  IN IF value # s1.spin_value THEN spinbox_setValue(s1, value, d) ELSE s1

\* QSlider.setValue: bound to the range; valueChanged only on a change, and
\* valueChanged is connected to logic.set_iteration.
slider_setValue(s, value, d) ==
  LET v == Bound(value, 0, s.slider_max) IN
  IF v = s.slider_value THEN s
  ELSE Slot(Logic_set_iteration([s EXCEPT !.slider_value = v], v, d + 1))

spinbox_setValue(s, value, d) ==
  LET v == Bound(value, 0, s.spin_max) IN
  IF v = s.spin_value THEN s
  ELSE Slot(Logic_set_iteration([s EXCEPT !.spin_value = v], v, d + 1))

\* QSpinBox.setMaximum / QSlider.setMaximum re-bound the value and emit
\* valueChanged when that changes it.
spinbox_setMaximum(s, value) ==
  spinbox_setValue([s EXCEPT !.spin_max = value], s.spin_value, 0)

slider_setMaximum(s, value) ==
  slider_setValue([s EXCEPT !.slider_max = value], s.slider_value, 0)

IterationWidget_set_number_of_iterations(s, value) ==
  LET s1 == IF s.spin_max # value THEN spinbox_setMaximum(s, value) ELSE s
  IN IF s1.slider_max # value THEN slider_setMaximum(s1, value) ELSE s1

\* set_number_of_iterations that only ever raises the count
Logic_set_number_of_iterations_grow_only(s, value) ==
  IF value > s.number_of_iterations
  THEN Slot(IterationWidget_set_number_of_iterations(
              Emit([s EXCEPT !.number_of_iterations = value],
                   "numberOfIterationsChanged", value),
              value))
  ELSE s

\* RegistrationTunerLogic.set_number_of_iterations
Logic_set_number_of_iterations(s, value) ==
  IF value # s.number_of_iterations
  THEN Slot(IterationWidget_set_number_of_iterations(
              Emit([s EXCEPT !.number_of_iterations = value],
                   "numberOfIterationsChanged", value),
              value))
  ELSE s

\* ---- the state before RegistrationTuner(config) ---------------------------
\* config.SubSampleTubeTree is the Sampling factor, 0 when the key is absent.
Init ==
  /\ config \in [SubSampleTubeTree : {0} \cup SamplingFactors,
                 Executables : SUBSET ExecutableNames]
  /\ pc = "new"
  /\ files = {}
  /\ progression_file = NoFile
  /\ calls = <<>>
  /\ ntemp = 0
  /\ ncloses = 0
  /\ iteration = 0
  /\ number_of_iterations = 0
  /\ progression = NoProgression
  /\ tubes_center = <<0, 0, 0>>
  /\ subsampled_tubes = input_tubes
  /\ slider_value = 0 /\ slider_max = 0
  /\ spin_value = 0 /\ spin_max = 0
  /\ tubes_circles = <<>>
  /\ metric_marker = NoMarker
  /\ op = "none"
  /\ arg = 0
  /\ outcome = "none"
  /\ raised = "none"
  /\ emitted = <<>>
  /\ queries = <<>>
  /\ slot_errors = <<>>
  /\ delete_attempts = <<>>
  /\ overflow = FALSE

SubSampleCommand_default_factor ==
  [exe |-> "SubSampleTubes",
   argv |-> <<"--samplingFactor", str(2), io_params[2], SubsampledTubesTemp>>]

SubSampleCommand ==
  [exe |-> "SubSampleTubes",
   argv |-> <<"--samplingFactor", str(config.SubSampleTubeTree),
              io_params[2], SubsampledTubesTemp>>]

\* RegistrationTunerLogic.__init__: what the subsampling step leaves behind.
\* result: "ok", or the exception check_call / the config lookup raises.
Logic_init(subsample) ==
  IF config.SubSampleTubeTree # 0
  THEN [files |-> {SubsampledTubesTemp},
        subsampled_tubes |-> SubsampledTubesTemp,
        calls |-> IF "SubSampleTubes" \in config.Executables
                     /\ subsample # "notfound"
                  THEN <<SubSampleCommand>> ELSE <<>>,
        exc |-> IF "SubSampleTubes" \notin config.Executables THEN "KeyError"
                ELSE IF subsample = "notfound" THEN "OSError"
                ELSE IF subsample = "nonzero" THEN "CalledProcessError"
                ELSE "none"]
  ELSE [files |-> {}, subsampled_tubes |-> io_params[2],
        calls |-> <<>>, exc |-> "none"]

\* RegistrationTuner.__init__: the logic's constructor, logic.initialize()
\* and the main window, whose initializeUI draws the tubes once.
RegistrationTuner_init ==
  /\ pc = "new"
  /\ \E subsample \in Outcomes :
       /\ (config.SubSampleTubeTree = 0
             \/ "SubSampleTubes" \notin config.Executables) => subsample = "ok"
       /\ LET r == Logic_init(subsample) IN
          /\ op' = "init"
          /\ arg' = 0
          /\ outcome' = IF r.calls # <<>> THEN subsample
                        ELSE IF r.exc = "OSError" THEN "notfound" ELSE "none"
          /\ calls' = r.calls
          /\ delete_attempts' = <<>>
          /\ IF r.exc # "none"
             THEN /\ pc' = "init_failed"
                  /\ files' = files \cup r.files
                  /\ raised' = r.exc
                  /\ subsampled_tubes' = r.subsampled_tubes
                  /\ emitted' = <<>> /\ queries' = <<>> /\ slot_errors' = <<>>
                  /\ UNCHANGED <<iteration, number_of_iterations, progression,
                                 tubes_center, slider_value, slider_max,
                                 spin_value, spin_max, tubes_circles,
                                 metric_marker, overflow>>
             ELSE /\ pc' = "running"
                  /\ files' = files \cup r.files \cup {VideoFrameDir}
                  /\ Unpack(add_tubes([Pack EXCEPT !.subsampled_tubes =
                                                      r.subsampled_tubes]))
  /\ UNCHANGED <<config, progression_file, ntemp, ncloses>>

\* ---- RegistrationTunerLogic.close ---------------------------------------
close ==
  /\ pc \in {"running", "closed"}
  /\ ncloses < MaxCloses
  /\ ncloses' = ncloses + 1
  /\ op' = "close"
  /\ arg' = 0
  /\ outcome' = "none"
  /\ LET dir_there == VideoFrameDir \in files
         sub_there == subsampled_tubes \in files
     IN
     IF ~dir_there
     THEN \* shutil.rmtree raises on a missing directory
          /\ raised' = "OSError"
          /\ delete_attempts' = <<[path |-> VideoFrameDir, existed |-> FALSE]>>
          /\ UNCHANGED <<files, pc>>
     ELSE IF config.SubSampleTubeTree # 0
     THEN /\ delete_attempts' = <<[path |-> VideoFrameDir, existed |-> TRUE],
                                  [path |-> subsampled_tubes,
                                   existed |-> sub_there]>>
          /\ files' = files \ {VideoFrameDir, subsampled_tubes}
          /\ raised' = IF sub_there THEN "none" ELSE "OSError"
          /\ pc' = IF sub_there THEN "closed" ELSE pc
     ELSE /\ delete_attempts' = <<[path |-> VideoFrameDir, existed |-> TRUE]>>
          /\ files' = files \ {VideoFrameDir}
          /\ raised' = "none"
          /\ pc' = "closed"
  /\ emitted' = <<>> /\ queries' = <<>> /\ slot_errors' = <<>>
  /\ UNCHANGED <<config, progression_file, calls, ntemp, iteration,
                 number_of_iterations, progression, tubes_center,
                 subsampled_tubes, slider_value, slider_max, spin_value,
                 spin_max, tubes_circles, metric_marker, overflow>>

\* ---- RegistrationTunerLogic.set_iteration, called directly --------------
set_iteration ==
  /\ pc = "running"
  /\ \E value \in -1..(MaxTraceLen + 1) :
       /\ arg' = value
       /\ Unpack(Logic_set_iteration(Pack, value, 0))
  /\ op' = "set_iteration"
  /\ outcome' = "none"
  /\ delete_attempts' = <<>>
  /\ UNCHANGED <<config, pc, files, progression_file, calls, ntemp, ncloses>>

\* ---- the user moves the slider or edits the spinbox ---------------------
\* Lines 305-310: valueChanged(int) of either widget is connected to
\* logic.set_iteration; the widget takes the new value, then emits.
slider_valueChanged ==
  /\ pc = "running"
  /\ \E value \in 0..slider_max :
       /\ value # slider_value
       /\ arg' = value
       /\ Unpack(slider_setValue(Pack, value, 0))
  /\ op' = "slider"
  /\ outcome' = "none"
  /\ delete_attempts' = <<>>
  /\ UNCHANGED <<config, pc, files, progression_file, calls, ntemp, ncloses>>

spinbox_valueChanged ==
  /\ pc = "running"
  /\ \E value \in 0..spin_max :
       /\ value # spin_value
       /\ arg' = value
       /\ Unpack(spinbox_setValue(Pack, value, 0))
  /\ op' = "spinbox"
  /\ outcome' = "none"
  /\ delete_attempts' = <<>>
  /\ UNCHANGED <<config, pc, files, progression_file, calls, ntemp, ncloses>>

\* ---- RegistrationTunerLogic.run_analysis --------------------------------
AnalysisCommand(config_file) ==
  [exe |-> "Analysis",
   argv |-> <<"--parameterstorestore", config_file,
              io_params[1], io_params[2], io_params[3]>>]

\* Lines 145-156: open the progression file, keep its table and fixed
\* parameters, publish the iteration count and move to the last iteration.
load_progression(s, file) ==
  IF ~file.exists THEN [s EXCEPT !.exc = "IOError"]
  ELSE
    LET s1 == [s EXCEPT !.progression = [loaded |-> TRUE, rows |-> file.rows],
                        !.tubes_center = file.FixedParameters]
    IN IF Len(s1.progression.rows) = 0 THEN [s1 EXCEPT !.exc = "IndexError"]
       ELSE
         LET last == s1.progression.rows[Len(s1.progression.rows)]
             s2 == Logic_set_number_of_iterations(s1, last.Iteration)
             s3 == Emit(s2, "analysisRun", 0)
         IN Logic_set_iteration(s3, s3.number_of_iterations, 0)

\* What the analysis process can leave at the progression path: a complete
\* table when it exits 0; anything, or the file as it was, when it fails.
AnalysisWrites(result) ==
  IF result = "ok" THEN ProgressionContents
  ELSE ProgressionContents \cup {progression_file}

run_analysis ==
  /\ pc = "running"
  /\ ntemp < MaxRuns
  /\ ntemp' = ntemp + 1
  /\ op' = "run_analysis"
  /\ arg' = 0
  /\ LET config_file == TunerConfigTemp(ntemp + 1) IN
     IF "Analysis" \notin config.Executables
     THEN \* the command list cannot be built; the file is already written
          /\ files' = files \cup {config_file}
          /\ outcome' = "none"
          /\ Unpack([Pack EXCEPT !.exc = "KeyError"])
          /\ delete_attempts' = <<>>
          /\ UNCHANGED <<progression_file, calls>>
     ELSE
       \E result \in Outcomes :
         /\ outcome' = result
         /\ IF result = "notfound"
            THEN \* subprocess.call raises before os.remove
                 /\ files' = files \cup {config_file}
                 /\ Unpack([Pack EXCEPT !.exc = "OSError"])
                 /\ delete_attempts' = <<>>
                 /\ UNCHANGED <<progression_file, calls>>
            ELSE \E written \in AnalysisWrites(result) :
                 /\ calls' = Append(calls, AnalysisCommand(config_file))
                 /\ progression_file' = written
                 /\ files' = (files \cup {config_file}) \ {config_file}
                 /\ delete_attempts' =
                      <<[path |-> config_file, existed |-> TRUE]>>
                 /\ Unpack(load_progression(Pack, written))
  /\ UNCHANGED <<config, pc, ncloses>>

Next ==
  \/ RegistrationTuner_init
  \/ run_analysis
  \/ set_iteration
  \/ slider_valueChanged
  \/ spinbox_valueChanged
  \/ close

Spec == Init /\ [][Next]_vars

\* ========================================================================
\* Properties
\* ========================================================================
ExternalToolError == {"CalledProcessError", "OSError"}

AnalysisCalls == {i \in DOMAIN calls : calls[i].exe = "Analysis"}
SubSampleCalls == {i \in DOMAIN calls : calls[i].exe = "SubSampleTubes"}

\* C1: a run whose analysis process exits non-zero fails (any exception
\* leaving run_analysis is taken for the claimed error), leaves progression,
\* rotation center, number_of_iterations and iteration as they were and
\* emits no signal.
C1_FailedRunCommitsNothing ==
  [][(op' = "run_analysis" /\ ntemp' = ntemp + 1 /\ outcome' = "nonzero")
       => /\ raised' # "none"
          /\ progression' = progression
          /\ tubes_center' = tubes_center
          /\ number_of_iterations' = number_of_iterations
          /\ iteration' = iteration
          /\ emitted' = <<>>]_vars

\* C2: whatever way run_analysis ends (success, non-zero exit, executable
\* missing, configuration key absent), the temporary configuration file it
\* created is gone when it returns or raises.
C2_ConfigFileRemovedOnEveryExit ==
  op = "run_analysis" => TunerConfigTemp(ntemp) \notin files

\* C3: with SubSampleTubeTree.Sampling configured, the input-vessel argument
\* of every analysis invocation is the temporary subsampled tube file, not
\* the input tube path of parameter group 0.
C3_AnalysisReceivesSubsampledTubes ==
  config.SubSampleTubeTree # 0 =>
    \A i \in AnalysisCalls : calls[i].argv[4] = SubsampledTubesTemp

\* C4: an instance configured with SubSampleTubeTree.Sampling has invoked the
\* subsampling executable exactly once, with that factor, as the first
\* external process, before every analysis invocation, however many runs
\* followed.
C4_SubsampleOnceBeforeAnalysis ==
  (config.SubSampleTubeTree # 0 /\ pc \in {"running", "closed"}) =>
    /\ SubSampleCalls = {1}
    /\ calls[1].argv[1] = "--samplingFactor"
    /\ calls[1].argv[2] = (IF config.SubSampleTubeTree = 2 THEN "2" ELSE "3")
    /\ \A i \in AnalysisCalls : i > 1

\* C4 witness: a subsampling instance after three runs, two of which spawned
\* the analysis executable.
C4_Witness ==
  /\ config.SubSampleTubeTree = 3
  /\ pc = "running"
  /\ ntemp = 3
  /\ Cardinality(AnalysisCalls) >= 2
  /\ Cardinality(SubSampleCalls) = 1

\* C5: a second close after a successful first one raises nothing and does
\* not try to delete a path that is already gone.
C5_SecondCloseIsNoOp ==
  (op = "close" /\ ncloses >= 2 /\ pc = "closed") =>
    /\ raised = "none"
    /\ \A i \in DOMAIN delete_attempts : delete_attempts[i].existed

\* C6: once close has returned, no temporary artifact is left: neither the
\* subsampled tube file, nor a serialized configuration file, nor the
\* progression output file, nor the scratch directory.
C6_NothingLeftAfterClose ==
  (op = "close" /\ raised = "none") =>
    /\ files = {}
    /\ ~progression_file.exists

\* C7: every analysis invocation has the argument vector --parameterstore,
\* temporary configuration file, input volume, input vessel, output
\* transform, in that order.
C7_AnalysisArgumentVector ==
  \A i \in AnalysisCalls :
    /\ Len(calls[i].argv) = 5
    /\ calls[i].argv[1] = "--parameterstore"
    /\ \E k \in 1..ntemp : calls[i].argv[2] = TunerConfigTemp(k)
    /\ calls[i].argv[3] = input_volume
    /\ calls[i].argv[4] \in {input_tubes, subsampled_tubes}
    /\ calls[i].argv[5] = output_transform

\* C8: when the subsampling executable exits non-zero or is not found, the
\* constructor raises an ExternalToolError and the temporary subsampled-tube
\* file it created has been removed.
C8_FailedPrepareRemovesTempFile ==
  (op = "init" /\ outcome \in {"nonzero", "notfound"}) =>
    /\ raised \in ExternalToolError
    /\ SubsampledTubesTemp \notin files

\* C9: a set_iteration request below 0 or above number_of_iterations is
\* rejected with an error, and every parameter lookup for an iteration in
\* [0, number_of_iterations] returns the 6 stored values of the row with
\* that Iteration.
C9_IterationRangeChecked ==
  /\ (op = "set_iteration" /\ (arg < 0 \/ arg > number_of_iterations)) =>
       (raised = "ValueError" /\ emitted = <<>>)
  /\ \A i \in DOMAIN queries :
       queries[i].from_trace =>
         /\ queries[i].found
         /\ \E r \in DOMAIN progression.rows :
              /\ progression.rows[r].Iteration = queries[i].iteration
              /\ progression.rows[r].Parameters = queries[i].parameters

\* C10: a run that loads a progression file without rows raises, publishes
\* no iteration count and emits nothing, and no parameter lookup is ever
\* made on an empty trace.
C10_EmptyTraceRejected ==
  /\ (op = "run_analysis" /\ outcome \in {"ok", "nonzero"}
        /\ progression_file.exists /\ progression_file.rows = <<>>) =>
       (raised = "IndexError" /\ emitted = <<>>)
  /\ (progression.loaded /\ progression.rows = <<>>) => queries = <<>>

\* C11: after every run that returns, number_of_iterations is the Iteration
\* field of the last row of the (non-empty) table that run loaded from the
\* progression file, whatever the count was before the run.
C11_CountIsLastIteration ==
  (op = "run_analysis" /\ raised = "none") =>
    /\ progression.loaded
    /\ progression.rows = progression_file.rows
    /\ progression.rows # <<>>
    /\ number_of_iterations =
         progression.rows[Len(progression.rows)].Iteration

\* C11 witness: a third run that succeeded with a one-row table and lowered
\* the count published by an earlier, longer trace to 0.
C11_Witness ==
  /\ op = "run_analysis" /\ outcome = "ok" /\ raised = "none"
  /\ ntemp = 3
  /\ Len(progression.rows) = 1
  /\ number_of_iterations = 0
  /\ \E i \in DOMAIN emitted :
       emitted[i][1] = "numberOfIterationsChanged" /\ emitted[i][2] = 0

\* The iterations current, current-1, ..., current-3 that lie in
\* [0, number_of_iterations].
ClippedWindow ==
  {it \in (iteration - 3)..iteration : it >= 0 /\ it <= number_of_iterations}

\* C12: whenever the window is idle, the overlays on screen are those of
\* exactly the iterations current, current-1, ..., current-3 clipped to
\* [0, number_of_iterations]: none negative, none above the count, and none
\* left over from outside the window.
C12_RenderedWindow ==
  pc = "running" =>
    /\ \A it \in DOMAIN tubes_circles : it >= 0 /\ it <= number_of_iterations
    /\ DOMAIN tubes_circles = ClippedWindow

\* C13: every overlay drawn from a loaded trace carries exactly five
\* transform steps, all in the world frame and in this order: translate by
\* -center, rotate about X by rotation[0], about Y by rotation[1], about Z by
\* rotation[2] (radians, handed over as 180 * angle / pi degrees), translate
\* by center + translation; and the parameters and center used are those of
\* the trace row of that iteration and of the trace's fixed parameters.
C13_TransformSteps ==
  /\ \A it \in DOMAIN tubes_circles :
       LET m == tubes_circles[it]
           rot == m.parameters
           c == m.center
       IN m.transformed =>
            /\ Len(m.steps) = 5
            /\ \A k \in 1..5 : ~m.steps[k].local
            /\ m.steps[1].kind = "translate"
            /\ m.steps[1].v = <<0 - c[1], 0 - c[2], 0 - c[3]>>
            /\ \A k \in 2..4 :
                 /\ m.steps[k].kind = "rotate"
                 /\ m.steps[k].angle.den = "pi"
                 /\ m.steps[k].angle.num = 180 * rot[k - 1]
            /\ m.steps[2].v = <<1, 0, 0>>
            /\ m.steps[3].v = <<0, 1, 0>>
            /\ m.steps[4].v = <<0, 0, 1>>
            /\ m.steps[5].kind = "translate"
            /\ m.steps[5].v = <<c[1] + rot[4], c[2] + rot[5], c[3] + rot[6]>>
  /\ \A i \in DOMAIN queries :
       LET q == queries[i] IN
       (q.from_trace /\ q.found /\ q.iteration \in DOMAIN tubes_circles) =>
         /\ tubes_circles[q.iteration].transformed
         /\ tubes_circles[q.iteration].parameters =
              progression.rows[q.iteration + 1].Parameters
         /\ tubes_circles[q.iteration].center = tubes_center

\* C13 witness: the overlay of iteration 2 of a loaded trace, with three
\* non-zero rotation angles and a non-zero center, has just been drawn.
C13_Witness ==
  /\ 2 \in DOMAIN tubes_circles
  /\ tubes_circles[2].transformed
  /\ \A k \in 1..3 : tubes_circles[2].parameters[k] # 0
  /\ tubes_circles[2].center # <<0, 0, 0>>
  /\ \E i \in DOMAIN queries : queries[i].iteration = 2 /\ queries[i].found

C15_RunRefreshesListeners ==
  (op = "run_analysis" /\ raised = "none") =>
    /\ iteration = number_of_iterations
    /\ \E i \in DOMAIN emitted : emitted[i][1] = "iterationChanged"

\* C16: 0 <= iteration <= number_of_iterations holds between operations and
\* at every invocation of the listeners of iterationChanged,
\* numberOfIterationsChanged and analysisRun.
C16_IterationWithinCount ==
  /\ pc = "running" =>
       (0 <= iteration /\ iteration <= number_of_iterations)
  /\ \A i \in DOMAIN emitted :
       0 <= emitted[i][3] /\ emitted[i][3] <= emitted[i][4]

\* C17: a change to a value in [0, number_of_iterations], requested through
\* logic.set_iteration, the slider or the spinbox, ends after a bounded
\* nesting of signals, with at most one iterationChanged, no exception, and
\* the logic's iteration, the slider and the spinbox all at that value.
C17_CycleTerminatesInAgreement ==
  /\ ~overflow
  /\ (op \in {"set_iteration", "slider", "spinbox"}
        /\ 0 <= arg /\ arg <= number_of_iterations) =>
       /\ raised = "none"
       /\ iteration = arg
       /\ slider_value = arg
       /\ spin_value = arg
       /\ Len(emitted) <= 1

\* C17 witness: the user dragged the slider to 2; the logic followed,
\* emitted iterationChanged(2), and the spinbox was brought along.
C17_Witness ==
  /\ op = "slider" /\ arg = 2
  /\ iteration = 2 /\ slider_value = 2 /\ spin_value = 2
  /\ Len(emitted) = 1 /\ emitted[1][1] = "iterationChanged"

NoOverflow == ~overflow

====
